---- MODULE Spec2Model ----
(***************************************************************************)
(* A model of the notebook course_2.0/03_DNN_practical.ipynb: the cells    *)
(* that prepare the data (label extraction, class balancing), the Google   *)
(* Cloud Storage boilerplate, the validation split, and the training runs  *)
(* of the suggested answers.  Each code cell is one action; cells may be   *)
(* run in any order and any number of times once the names they read are   *)
(* bound, as in a notebook kernel.                                         *)
(***************************************************************************)
EXTENDS Integers, Sequences, FiniteSets, TLC

VARIABLES
    df,                 \* the dataframe: a sequence of [Elements, Spectra] rows
    extracted,          \* train_x / train_y are bound (cell "Extract training data" ran)
    train_x,            \* np.array of spectra rows
    train_y,            \* np.array of 0/1 labels
    id_no_Ag,           \* indices (0-based) of train_y == 0
    id_with_Ag,         \* indices (0-based) of train_y == 1
    id_no_Ag_downsample, \* the 'no Ag' indices np.random.choice drew
    id_downsample,      \* the selected indices, shuffled
    balanced,           \* train_x_balanced / train_y_balanced are bound
    train_x_balanced,
    train_y_balanced,
    balance_error,      \* the balancing cell raised (np.random.choice on an empty array)
    \* Google Cloud Storage boilerplate
    platform,           \* "colab" or "local": whether google.colab can be imported
    google_colab_env,   \* "unset", "true" or "false"
    data_path,          \* "unset", colab_data_path or the local data path
    env_attempt,        \* the last run of the environment cell: whether the import
                        \* and the authentication succeeded
    dir_exists,         \* the directory colab_data_path exists
    apt_list_written,   \* /etc/apt/sources.list.d/gcsfuse.list was written
    gcsfuse_installed,  \* apt installed gcsfuse
    project_set,        \* gcloud config set project ran
    mount_count,        \* number of times gcsfuse mounted the bucket
    bash_runs,          \* number of runs of the bash cell
    bash_out,           \* what the last run of the bash cell echoed
    \* validation subset
    split_array,        \* the label array looked at: "train_y" or "train_y_balanced"
    split_labels,       \* its entries, each named by its position 0..n-1
    keras_checks_split, \* the installed Keras refuses a split that leaves a part empty
    hist_done,          \* the histogram cell ran
    hist_validation,    \* the entries plotted as 'Validation subset'
    fit_done,           \* model.fit(..., validation_split=0.2) split the data
    fit_training,       \* the entries model.fit trains on
    fit_validation,     \* the entries model.fit holds out
    fit_error,          \* model.fit raised ValueError instead of splitting
    \* training runs
    phase,              \* "idle", "fitting" (inside the early-stopping fit) or "returned"
    model,              \* the object bound to model: the cell that defined it and the
                        \* number of fits its weights and its optimizer went through
    fit_log,            \* the last model.fit: its cell and the model's counts before it
    fit_calls,          \* number of model.fit calls so far
    callback_monitor,   \* the monitor of the EarlyStopping callback, "none" before it
    restore_on_train_end, \* the installed Keras restores the best weights when
                        \* training ends, not only when the callback stops it
    epoch,              \* epochs executed by the early-stopping fit
    wait,               \* callback.wait
    best,               \* callback.best
    best_weights,       \* callback.best_weights, named by the epoch that produced them
    stop_training,      \* model.stop_training
    model_weights,      \* the weights the model holds, named by epoch (0: initial)
    \* numpy's global random generator
    rng,                \* whether np.random.seed(0) ran in this kernel, and its state
    rng_trace,          \* the random-consuming cells run since the seed was set
    balance_trace,      \* rng_trace when the balancing cell produced the balanced data
    ref                 \* the balanced data of an earlier execution (before a kernel
                        \* restart) and the balance_trace it was produced under

dataVars == <<df, extracted, train_x, train_y, id_no_Ag, id_with_Ag,
              id_no_Ag_downsample, id_downsample,
              balanced, train_x_balanced, train_y_balanced, balance_error>>

mountVars == <<platform, google_colab_env, data_path, env_attempt, dir_exists,
               apt_list_written,
               gcsfuse_installed, project_set, mount_count, bash_runs, bash_out>>

-----------------------------------------------------------------------------
splitVars == <<split_array, split_labels, keras_checks_split, hist_done,
               hist_validation, fit_done, fit_training, fit_validation, fit_error>>

trainVars == <<phase, model, fit_log, fit_calls, callback_monitor,
               restore_on_train_end, epoch, wait, best, best_weights, stop_training,
               model_weights>>

seedVars == <<rng, rng_trace, balance_trace, ref>>

vars == <<dataVars, mountVars, splitVars, trainVars, seedVars>>

-----------------------------------------------------------------------------
(* Bounds of the model *)

MaxBashRuns == 5        \* runs of the bash cell
MaxLen == 26            \* entries of the array that is split
MaxLoss == 10           \* the monitored value of an epoch is one of 0..MaxLoss
MaxFitCalls == 2        \* model.fit calls in a session

MaxSamples == 4         \* rows of the dataframe
MaxSeedSamples == 3     \* rows of the dataframe in the seeded executions
MaxRandomCalls == 2     \* random-consuming cells run after one np.random.seed(0)
TrainCap == 3           \* stands for the 50000 of [:50000]
SpectrumLen == 4        \* stands for the 1000 values of each spectrum

-----------------------------------------------------------------------------
(* Helpers: Python / numpy operations as the cells use them *)

Min(a, b) == IF a < b THEN a ELSE b

Range(s) == {s[i] : i \in 1..Len(s)}

\* s[:n] for n >= 0
Prefix(s, n) == SubSeq(s, 1, Min(n, Len(s)))

\* a wrong membership test: the list is exactly [x], as ['Ag'] == elements
PyInPureOnly(x, list) == list = <<x>>

\* x in list: membership in a Python list
PyIn(x, list) == \E i \in 1..Len(list) : list[i] = x

\* bool.astype(int)
AsInt(b) == IF b THEN 1 ELSE 0

\* np.where(cond)[0] on a 1-d array: the 0-based positions where v holds, ascending
RECURSIVE WhereEq(_, _, _)
WhereEq(arr, v, n) ==
    IF n = 0 THEN <<>>
    ELSE IF arr[n] = v THEN Append(WhereEq(arr, v, n - 1), n - 1)
         ELSE WhereEq(arr, v, n - 1)

\* a wrong draw: positions 0..len(a)-1 instead of the entries of a, as
\* np.random.choice(len(a), size) gives
ChoiceOutcomesOfPositions(a, size) == [1..size -> 0..(Len(a) - 1)]

\* np.random.choice(a, size): every outcome of drawing size entries of a
\* with replacement (replace=True is numpy's default)
ChoiceOutcomes(a, size) == [1..size -> Range(a)]

\* np.random.shuffle(s): every reordering of s
RemoveAt(s, i) == SubSeq(s, 1, i - 1) \o SubSeq(s, i + 1, Len(s))

RECURSIVE ShuffleOutcomes(_)
ShuffleOutcomes(s) ==
    IF Len(s) = 0 THEN {<<>>}
    ELSE UNION {{<<s[i]>> \o t : t \in ShuffleOutcomes(RemoveAt(s, i))} : i \in 1..Len(s)}

\* a wrong indexing: the rows in ascending order of index, as a boolean mask or
\* np.sort(ids) gives
RECURSIVE SortedInsert(_, _)
SortedInsert(s, x) ==
    IF Len(s) = 0 THEN <<x>>
    ELSE IF x <= s[1] THEN <<x>> \o s
         ELSE <<s[1]>> \o SortedInsert(Tail(s), x)

RECURSIVE Sorted(_)
Sorted(s) == IF Len(s) = 0 THEN <<>> ELSE SortedInsert(Sorted(Tail(s)), s[1])

TakeSorted(arr, ids) == [j \in 1..Len(ids) |-> arr[Sorted(ids)[j] + 1]]

\* arr[ids]: numpy fancy indexing with a sequence of 0-based indices
Take(arr, ids) == [j \in 1..Len(ids) |-> arr[ids[j] + 1]]

\* number of entries of arr equal to v
RECURSIVE CountEq(_, _)
CountEq(arr, v) ==
    IF Len(arr) = 0 THEN 0
    ELSE AsInt(arr[1] = v) + CountEq(Tail(arr), v)

-----------------------------------------------------------------------------
(* The dataset *)

\* the element lists a row may hold: pure Ag, Ag listed second, no Ag
ElementLists == {<<"Ag">>, <<"Si", "Ag">>, <<"Fe", "Si">>}

\* the spectrum of row i: SpectrumLen positive values; no value occurs twice in
\* the dataframe, so a value of train_x names the row and the position it is from
Spectrum(i) == [j \in 1..SpectrumLen |-> 10 * i + j]

\* the dataframes: 1..MaxSamples rows, each with any of the element lists
DataFrames ==
    UNION {{[i \in 1..n |-> [Elements |-> e[i], Spectra |-> Spectrum(i)]] :
              e \in [1..n -> ElementLists]} : n \in 1..MaxSamples}

-----------------------------------------------------------------------------
(* Cell "Extract training data" *)

\* train_x = np.array(df['Spectra'].to_list())[:50000]
TrainX(d) == Prefix([i \in 1..Len(d) |-> d[i].Spectra], TrainCap)

\* train_y = np.array(['Ag' in elements for elements in df['Elements']]).astype(int)[:50000]
TrainY(d) == Prefix([i \in 1..Len(d) |-> AsInt(PyIn("Ag", d[i].Elements))], TrainCap)

ExtractTrainingData ==
    /\ train_x' = TrainX(df)
    /\ train_y' = TrainY(df)
    /\ extracted' = TRUE
    /\ UNCHANGED <<df, id_no_Ag, id_with_Ag, id_no_Ag_downsample, id_downsample,
                   balanced, train_x_balanced, train_y_balanced, balance_error>>
    /\ UNCHANGED <<mountVars, splitVars, trainVars, seedVars>>

-----------------------------------------------------------------------------
(* Cell "downsample the majority class" *)

\* a wrong selection: the indices of label 1 taken as the 'no Ag' indices
IdNoAgOfOnes(y) == WhereEq(y, 1, Len(y))

\* id_no_Ag = np.where(train_y == 0)[0]
IdNoAg(y) == WhereEq(y, 0, Len(y))

\* id_with_Ag = np.where(train_y == 1)[0]
IdWithAg(y) == WhereEq(y, 1, Len(y))

\* a wrong size: the length of the array that is sampled
DrawCountOfSampled(no_Ag, with_Ag) == Len(no_Ag)

\* len(id_with_Ag), the size handed to np.random.choice
DrawCount(no_Ag, with_Ag) == Len(with_Ag)

\* np.random.choice raises ValueError on an empty array unless size is 0
ChoiceRaises(a, size) == Len(a) = 0 /\ size > 0

\* the cell from np.random.choice on, given what choice drew and what shuffle
\* left in id_downsample
BalanceWith(drawn, shuffled) ==
    /\ id_no_Ag_downsample' = drawn
    /\ id_downsample' = shuffled
    /\ train_x_balanced' = Take(train_x, shuffled)
    /\ train_y_balanced' = Take(train_y, shuffled)
    /\ balanced' = TRUE
    /\ balance_error' = FALSE

\* the cell when np.random.choice raises: the names after it stay as they were
BalanceRaised ==
    /\ balance_error' = TRUE
    /\ UNCHANGED <<id_no_Ag_downsample, id_downsample, balanced, train_x_balanced,
                   train_y_balanced>>

\* the cell with every outcome of the two random calls
BalanceCell ==
    /\ extracted
    /\ id_no_Ag' = IdNoAg(train_y)
    /\ id_with_Ag' = IdWithAg(train_y)
    /\ IF ChoiceRaises(id_no_Ag', DrawCount(id_no_Ag', id_with_Ag'))
       THEN BalanceRaised
       ELSE \E drawn \in ChoiceOutcomes(id_no_Ag', DrawCount(id_no_Ag', id_with_Ag')) :
            \E shuffled \in ShuffleOutcomes(id_with_Ag' \o drawn) :
               BalanceWith(drawn, shuffled)
    /\ UNCHANGED <<df, extracted, train_x, train_y>>
    /\ UNCHANGED <<mountVars, splitVars, trainVars, seedVars>>

-----------------------------------------------------------------------------
(* Specification of the data-preparation cells *)

\* the names the data cells bind, before any of them ran
DataUnbound ==
    /\ extracted = FALSE
    /\ train_x = <<>>
    /\ train_y = <<>>
    /\ id_no_Ag = <<>>
    /\ id_with_Ag = <<>>
    /\ id_no_Ag_downsample = <<>>
    /\ id_downsample = <<>>
    /\ balanced = FALSE
    /\ train_x_balanced = <<>>
    /\ train_y_balanced = <<>>
    /\ balance_error = FALSE

\* the kernel before the boilerplate cells ran, on a machine without the bucket
MountUnbound ==
    /\ google_colab_env = "unset"
    /\ data_path = "unset"
    /\ env_attempt = [import_ok |-> FALSE, auth_ok |-> FALSE]
    /\ apt_list_written = FALSE
    /\ gcsfuse_installed = FALSE
    /\ project_set = FALSE
    /\ mount_count = 0
    /\ bash_runs = 0
    /\ bash_out = ""

\* no array was split yet
SplitUnbound ==
    /\ hist_done = FALSE
    /\ hist_validation = <<>>
    /\ fit_done = FALSE
    /\ fit_training = <<>>
    /\ fit_validation = <<>>
    /\ fit_error = FALSE

SplitIdle ==
    /\ split_array = "train_y"
    /\ split_labels = <<>>
    /\ keras_checks_split = TRUE
    /\ SplitUnbound

\* the early-stopping callback and its fit, before the cell ran
CallbackUnbound ==
    /\ callback_monitor = "none"
    /\ epoch = 0
    /\ wait = 0
    /\ best = MaxLoss + 1
    /\ best_weights = 0
    /\ stop_training = FALSE
    /\ model_weights = 0

TrainUnbound ==
    /\ phase = "idle"
    /\ model = [cell |-> "none", fits |-> 0, opt_fits |-> 0]
    /\ fit_log = [cell |-> "none", prior_fits |-> 0, prior_opt_fits |-> 0]
    /\ fit_calls = 0
    /\ CallbackUnbound

TrainIdle ==
    /\ restore_on_train_end = FALSE
    /\ TrainUnbound

\* the generator before the first cell ran, and no earlier execution recorded
Unseeded == [seeded |-> FALSE, state |-> 0]

SeedUnbound ==
    /\ rng = Unseeded
    /\ rng_trace = <<>>
    /\ balance_trace = <<>>

NoRef == [set |-> FALSE, trace |-> <<>>, id_downsample |-> <<>>,
          train_x_balanced |-> <<>>, train_y_balanced |-> <<>>]

SeedIdle ==
    /\ SeedUnbound
    /\ ref = NoRef

MountIdle ==
    /\ platform = "local"
    /\ dir_exists = FALSE
    /\ MountUnbound

DataIdle ==
    /\ df = <<>>
    /\ DataUnbound

InitData ==
    /\ df \in DataFrames
    /\ DataUnbound
    /\ MountIdle
    /\ SplitIdle
    /\ TrainIdle
    /\ SeedIdle

NextData == ExtractTrainingData \/ BalanceCell

SpecData == InitData /\ [][NextData]_vars

-----------------------------------------------------------------------------
(* Google Cloud Storage boilerplate: the environment cell and the bash cell *)

\* try: from google.colab import auth; auth.authenticate_user() ... except: ...
\* import_ok, auth_ok: whether the import and the authentication succeed
colab_data_path == "/content/sciml-workshop-data/"

local_data_path == "./sciml-workshop-data/"

\* an except branch that resets the flag only and leaves data_path as the try
\* branch would set it
EnvOutcomeFlagOnly(import_ok, auth_ok) ==
    IF import_ok /\ auth_ok
    THEN [google_colab_env |-> "true", data_path |-> colab_data_path]
    ELSE [google_colab_env |-> "false", data_path |-> colab_data_path]

EnvOutcome(import_ok, auth_ok) ==
    IF import_ok /\ auth_ok
    THEN [google_colab_env |-> "true", data_path |-> colab_data_path]
    ELSE [google_colab_env |-> "false", data_path |-> local_data_path]

\* the import succeeds on Colab only; authenticate_user() is reached only after
\* the import and may raise
EnvCell ==
    /\ \E auth_ok \in (IF platform = "colab" THEN BOOLEAN ELSE {FALSE}) :
         LET out == EnvOutcome(platform = "colab", auth_ok) IN
            /\ google_colab_env' = out.google_colab_env
            /\ data_path' = out.data_path
            /\ env_attempt' = [import_ok |-> platform = "colab", auth_ok |-> auth_ok]
    /\ UNCHANGED <<platform, dir_exists, apt_list_written, gcsfuse_installed,
                   project_set, mount_count, bash_runs, bash_out>>
    /\ UNCHANGED <<dataVars, splitVars, trainVars, seedVars>>

\* a bash cell without the test of the directory
AlreadyMountedNever(d) == FALSE

\* if ! $1: the first argument, run as a command, fails
RunningLocally(env) == env # "true"

\* if [ -d $2 ]
AlreadyMounted(d) == d

\* %%bash -s {google_colab_env} {colab_data_path} {project_id} {bucket_name}
\* The script has no set -e: after the two tests every command runs, whether or
\* not the one before it failed.  install_ok, mount_ok: whether apt installs
\* gcsfuse and whether gcsfuse mounts the bucket.
BashCell ==
    /\ google_colab_env # "unset"
    /\ bash_runs < MaxBashRuns
    /\ bash_runs' = bash_runs + 1
    /\ IF RunningLocally(google_colab_env)
       THEN /\ bash_out' = "Running notebook locally."
            /\ UNCHANGED <<dir_exists, apt_list_written, gcsfuse_installed,
                           project_set, mount_count>>
       ELSE IF AlreadyMounted(dir_exists)
       THEN /\ bash_out' = "Data already mounted."
            /\ UNCHANGED <<dir_exists, apt_list_written, gcsfuse_installed,
                           project_set, mount_count>>
       ELSE \E install_ok, mount_ok \in BOOLEAN :
            /\ bash_out' = ""
            /\ apt_list_written' = TRUE
            /\ gcsfuse_installed' = (gcsfuse_installed \/ install_ok)
            /\ project_set' = TRUE
            /\ dir_exists' = TRUE
            /\ mount_count' = IF gcsfuse_installed' /\ mount_ok
                              THEN mount_count + 1 ELSE mount_count
    /\ UNCHANGED <<platform, google_colab_env, data_path, env_attempt>>
    /\ UNCHANGED <<dataVars, splitVars, trainVars, seedVars>>

InitMount ==
    /\ platform \in {"colab", "local"}
    /\ dir_exists \in BOOLEAN
    /\ MountUnbound
    /\ DataIdle
    /\ SplitIdle
    /\ TrainIdle
    /\ SeedIdle

NextMount == EnvCell \/ BashCell

SpecMount == InitMount /\ [][NextMount]_vars

-----------------------------------------------------------------------------
(* The validation subset: the histogram cells and validation_split=0.2 *)

Max(a, b) == IF a > b THEN a ELSE b

\* Python's a // b for b > 0: the floor of the quotient, also for a < 0
PyFloorDiv(a, b) == IF a >= 0 THEN a \div b ELSE -((-a + b - 1) \div b)

\* s[k:]: a negative k counts from the end, and is clipped at the start
PySliceFrom(s, k) ==
    LET start == IF k < 0 THEN Max(Len(s) + k, 0) ELSE Min(k, Len(s))
    IN  SubSeq(s, start + 1, Len(s))

\* s[:k] for k >= 0
PySliceTo(s, k) == SubSeq(s, 1, Min(k, Len(s)))

\* a wrong start of the slice: -(len(y)//5), the quotient negated
HistStartNegatedQuotient(n) == -PyFloorDiv(n, 5)

\* -len(y)//5: unary minus binds tighter than //, so this is (-len(y)) // 5
HistStart(n) == PyFloorDiv(-n, 5)

\* y[-len(y)//5:]
HistValidation(y) == PySliceFrom(y, HistStart(Len(y)))

\* Keras: split_at = int(math.floor(n * (1. - validation_split))) with
\* validation_split=0.2; the product is taken in tenths, which is what the
\* floating-point product floors to for every n an array can have
SplitAt(n) == (n * (10 - 2)) \div 10

\* Keras releases that check the split raise ValueError when a part is empty
SplitRaises(n, checks) == checks /\ (SplitAt(n) = 0 \/ SplitAt(n) = n)

\* cells "plot distribution of data" / "plot distribution of downsampled data"
PlotDistribution ==
    /\ hist_validation' = HistValidation(split_labels)
    /\ hist_done' = TRUE
    /\ UNCHANGED <<split_array, split_labels, keras_checks_split, fit_done,
                   fit_training, fit_validation, fit_error>>
    /\ UNCHANGED <<dataVars, mountVars, trainVars, seedVars>>

\* model.fit(train_x, train_y, ..., validation_split=0.2), up to the split
FitSplit ==
    /\ IF SplitRaises(Len(split_labels), keras_checks_split)
       THEN /\ fit_error' = TRUE
            /\ UNCHANGED <<fit_done, fit_training, fit_validation>>
       ELSE /\ fit_training' = PySliceTo(split_labels, SplitAt(Len(split_labels)))
            /\ fit_validation' = PySliceFrom(split_labels, SplitAt(Len(split_labels)))
            /\ fit_done' = TRUE
            /\ fit_error' = FALSE
    /\ UNCHANGED <<split_array, split_labels, keras_checks_split, hist_done,
                   hist_validation>>
    /\ UNCHANGED <<dataVars, mountVars, trainVars, seedVars>>

InitSplit ==
    /\ split_array \in {"train_y", "train_y_balanced"}
    /\ \E n \in 1..MaxLen : split_labels = [i \in 1..n |-> i - 1]
    /\ keras_checks_split \in BOOLEAN
    /\ SplitUnbound
    /\ DataIdle
    /\ MountIdle
    /\ TrainIdle
    /\ SeedIdle

NextSplit == PlotDistribution \/ FitSplit

SpecSplit == InitSplit /\ [][NextSplit]_vars

-----------------------------------------------------------------------------
(* Training runs: the suggested answers that define, compile and fit a model *)

\* EarlyStopping(monitor='loss', patience=50, restore_best_weights=True)
Monitor == "loss"

Patience == 50

RestoreBestWeights == TRUE

\* model.fit(..., epochs=500, ..., callbacks=[callback])
Epochs == 500

\* Keras logs of an epoch: 'loss' and 'accuracy' are computed on the training
\* subset, 'val_loss' and 'val_accuracy' on the held-out validation subset
MetricSubset(key) ==
    IF key \in {"val_loss", "val_accuracy"} THEN "validation"
    ELSE IF key \in {"loss", "accuracy"} THEN "training"
    ELSE "none"

\* a cell that calls model.fit on the model it finds, without re-defining it
ReusedModel(cell) ==
    IF model.cell = "none" THEN [cell |-> cell, fits |-> 0, opt_fits |-> 0] ELSE model

\* model = Sequential(); model.add(...); ad = Adam(...); model.compile(...):
\* a new model with new weights and a new optimizer
FreshModel(cell) == [cell |-> cell, fits |-> 0, opt_fits |-> 0]

\* model.fit on m: what fit_log keeps, and the model afterwards
FitLog(cell, m) == [cell |-> cell, prior_fits |-> m.fits, prior_opt_fits |-> m.opt_fits]

Fitted(m) == [m EXCEPT !.fits = m.fits + 1, !.opt_fits = m.opt_fits + 1]

\* suggested answer "Build and compile": define and compile, no fit
DefineAndCompile ==
    /\ phase # "fitting"
    /\ model' = FreshModel("first")
    /\ UNCHANGED <<phase, fit_log, fit_calls, callback_monitor, restore_on_train_end,
                   epoch, wait, best, best_weights, stop_training, model_weights>>
    /\ UNCHANGED <<dataVars, mountVars, splitVars, seedVars>>

\* suggested answer "Train the model": model.fit(train_x, train_y, epochs=10, ...)
\* on the model that is bound
TrainFirst ==
    /\ phase # "fitting"
    /\ model.cell # "none"
    /\ fit_calls < MaxFitCalls
    /\ fit_log' = FitLog("first", model)
    /\ model' = Fitted(model)
    /\ fit_calls' = fit_calls + 1
    /\ UNCHANGED <<phase, callback_monitor, restore_on_train_end, epoch, wait, best,
                   best_weights, stop_training, model_weights>>
    /\ UNCHANGED <<dataVars, mountVars, splitVars, seedVars>>

\* suggested answers "Re-train the model" (balanced data) and "Overfitting"
\* (dropout): re-define, re-compile, model.fit, in one cell
Retrain(cell) ==
    /\ phase # "fitting"
    /\ fit_calls < MaxFitCalls
    /\ fit_log' = FitLog(cell, FreshModel(cell))
    /\ model' = Fitted(FreshModel(cell))
    /\ fit_calls' = fit_calls + 1
    /\ UNCHANGED <<phase, callback_monitor, restore_on_train_end, epoch, wait, best,
                   best_weights, stop_training, model_weights>>
    /\ UNCHANGED <<dataVars, mountVars, splitVars, seedVars>>

RetrainBalanced == Retrain("balanced")

RetrainDropout == Retrain("dropout")

\* suggested answer "Early stopping", up to the first epoch: re-define,
\* re-compile, construct the callback, enter model.fit (on_train_begin)
StartEarlyStopping ==
    /\ phase # "fitting"
    /\ fit_calls < MaxFitCalls
    /\ fit_log' = FitLog("early_stopping", FreshModel("early_stopping"))
    /\ model' = Fitted(FreshModel("early_stopping"))
    /\ fit_calls' = fit_calls + 1
    /\ callback_monitor' = Monitor
    /\ phase' = "fitting"
    /\ epoch' = 0
    /\ wait' = 0
    /\ best' = MaxLoss + 1
    /\ best_weights' = 0
    /\ stop_training' = FALSE
    /\ model_weights' = 0
    /\ UNCHANGED restore_on_train_end
    /\ UNCHANGED <<dataVars, mountVars, splitVars, seedVars>>

\* a wrong test: one epoch too many before stopping
StopConditionLate(w, epoch_index) == w > Patience /\ epoch_index > 0

\* EarlyStopping.on_epoch_end: if self.wait >= self.patience and epoch > 0
StopCondition(w, epoch_index) == w >= Patience /\ epoch_index > 0

\* mode 'auto' on 'loss': np.less(current - min_delta, best), min_delta = 0
IsImprovement(current, b) == current < b

\* one epoch of the fit loop with its on_epoch_end: the epoch trains the model,
\* the callback reads logs[monitor] (current), keeps the best and counts the wait
Epoch ==
    /\ phase = "fitting"
    /\ ~stop_training
    /\ epoch < Epochs
    /\ \E current \in 0..MaxLoss :
         LET improved == IsImprovement(current, best)
             new_wait == IF improved THEN 0 ELSE wait + 1
             new_best_weights == IF improved /\ RestoreBestWeights
                                 THEN epoch + 1 ELSE best_weights
             stop == StopCondition(new_wait, epoch)
         IN  /\ epoch' = epoch + 1
             /\ best' = IF improved THEN current ELSE best
             /\ wait' = new_wait
             /\ best_weights' = new_best_weights
             /\ stop_training' = stop
             /\ model_weights' =
                   IF stop /\ RestoreBestWeights /\ ~restore_on_train_end
                   THEN new_best_weights ELSE epoch + 1
    /\ UNCHANGED <<phase, model, fit_log, fit_calls, callback_monitor,
                   restore_on_train_end>>
    /\ UNCHANGED <<dataVars, mountVars, splitVars, seedVars>>

\* the fit loop ends (stop_training, or all epochs ran): on_train_end, return
TrainEnd ==
    /\ phase = "fitting"
    /\ stop_training \/ epoch = Epochs
    /\ phase' = "returned"
    /\ model_weights' = IF RestoreBestWeights /\ restore_on_train_end
                        THEN best_weights ELSE model_weights
    /\ UNCHANGED <<model, fit_log, fit_calls, callback_monitor, restore_on_train_end,
                   epoch, wait, best, best_weights, stop_training>>
    /\ UNCHANGED <<dataVars, mountVars, splitVars, seedVars>>

InitTrain ==
    /\ restore_on_train_end \in BOOLEAN
    /\ TrainUnbound
    /\ DataIdle
    /\ MountIdle
    /\ SplitIdle
    /\ SeedIdle

NextTrain ==
    \/ DefineAndCompile
    \/ TrainFirst
    \/ RetrainBalanced
    \/ RetrainDropout
    \/ StartEarlyStopping
    \/ Epoch
    \/ TrainEnd

SpecTrain == InitTrain /\ [][NextTrain]_vars

-----------------------------------------------------------------------------
(* numpy's global random generator under np.random.seed(0) *)

\* the value handed to np.random.seed
SeedValue == 0

\* how many spectra the plotting cell draws per condition
NPlot == 4

\* The generator is a deterministic state machine: the seed fixes its state and
\* every variate drawn advances it.  Its states are abstracted to RngStates and
\* its transition to a full-period congruence; what the cells observe of it (a
\* state fixed by the seed, a bounded integer per draw) is kept.
RngStates == 0..15

\* what the operating system may supply to np.random.seed() without a value
Entropy == {s \in RngStates : s < 4}

\* a wrong seeding: the state taken from the operating system's entropy
SeedStateFromEntropy(entropy) == entropy

\* np.random.seed(0): the state is fixed by the value, whatever the entropy
SeedState(entropy) == SeedValue

\* the state after one variate is drawn
NextRng(s) == (5 * s + 3) % 16

\* the integer in 0..(n - 1) a draw yields in state s
RngIndex(s, n) == (s \div 4) % n

\* np.random.choice(a, size) from state s: size draws with replacement, in order
RECURSIVE SeededChoice(_, _, _)
SeededChoice(a, size, s) ==
    IF size = 0 THEN [out |-> <<>>, rng |-> s]
    ELSE LET r == SeededChoice(a, size - 1, s)
             s2 == NextRng(r.rng)
         IN [out |-> Append(r.out, a[RngIndex(s2, Len(a)) + 1]), rng |-> s2]

\* np.random.shuffle(arr) from state s: for i = n-1 down to 1, swap arr[i] with
\* arr[j] for a drawn j in 0..i (indices from 0)
RECURSIVE ShuffleFrom(_, _, _)
ShuffleFrom(arr, i, s) ==
    IF i < 1 THEN [out |-> arr, rng |-> s]
    ELSE LET s2 == NextRng(s)
             j == RngIndex(s2, i + 1)
         IN ShuffleFrom([arr EXCEPT ![i + 1] = arr[j + 1], ![j + 1] = arr[i + 1]],
                        i - 1, s2)

SeededShuffle(arr, s) == ShuffleFrom(arr, Len(arr) - 1, s)

-----------------------------------------------------------------------------
(* The cells that consume the generator, and the kernel *)

\* the dataframes of the seeded executions: as DataFrames, and a row may also
\* hold the list ['Ag', 'Si'] the plotting cell selects on
SeedDataFrames ==
    UNION {{[i \in 1..n |-> [Elements |-> e[i], Spectra |-> Spectrum(i)]] :
              e \in [1..n -> ElementLists \cup {<<"Ag", "Si">>}]} :
           n \in 1..MaxSeedSamples}

\* first cell: the imports, then np.random.seed(0)
SeedCell ==
    /\ \E entropy \in Entropy : rng' = [seeded |-> TRUE, state |-> SeedState(entropy)]
    /\ rng_trace' = <<>>
    /\ UNCHANGED <<balance_trace, ref>>
    /\ UNCHANGED <<dataVars, mountVars, splitVars, trainVars>>

\* conditions = [('no Ag', ...), ('pure Ag', ...), ('Ag-Si binary', ...)]: the
\* row indices each condition selects
PlotConditions(d) ==
    << WhereEq([i \in 1..Len(d) |-> AsInt(~PyIn("Ag", d[i].Elements))], 1, Len(d)),
       WhereEq([i \in 1..Len(d) |-> AsInt(<<"Ag">> = d[i].Elements)], 1, Len(d)),
       WhereEq([i \in 1..Len(d) |-> AsInt(<<"Ag", "Si">> = d[i].Elements)], 1, Len(d)) >>

\* for icond, cond in enumerate(conditions): np.random.choice(cond[1], nplot);
\* the generator after the loop from condition k on, which ends at the first
\* condition whose np.random.choice raises
RECURSIVE PlotRng(_, _, _)
PlotRng(conds, k, s) ==
    IF k > Len(conds) \/ ChoiceRaises(conds[k], NPlot) THEN s
    ELSE PlotRng(conds, k + 1, SeededChoice(conds[k], NPlot, s).rng)

\* the plotting cell
PlotSpectraCell ==
    /\ rng.seeded
    /\ Len(rng_trace) < MaxRandomCalls
    /\ rng' = [rng EXCEPT !.state = PlotRng(PlotConditions(df), 1, rng.state)]
    /\ rng_trace' = Append(rng_trace, "plot")
    /\ UNCHANGED <<balance_trace, ref>>
    /\ UNCHANGED <<dataVars, mountVars, splitVars, trainVars>>

\* the balancing cell with the generator in state rng
BalanceCellSeeded ==
    /\ extracted
    /\ rng.seeded
    /\ Len(rng_trace) < MaxRandomCalls
    /\ id_no_Ag' = IdNoAg(train_y)
    /\ id_with_Ag' = IdWithAg(train_y)
    /\ rng_trace' = Append(rng_trace, "balance")
    /\ IF ChoiceRaises(id_no_Ag', DrawCount(id_no_Ag', id_with_Ag'))
       THEN /\ BalanceRaised
            /\ UNCHANGED <<rng, balance_trace>>
       ELSE LET drawn == SeededChoice(id_no_Ag', DrawCount(id_no_Ag', id_with_Ag'),
                                      rng.state)
                shuffled == SeededShuffle(id_with_Ag' \o drawn.out, drawn.rng)
            IN /\ BalanceWith(drawn.out, shuffled.out)
               /\ rng' = [rng EXCEPT !.state = shuffled.rng]
               /\ balance_trace' = rng_trace'
    /\ UNCHANGED ref
    /\ UNCHANGED <<df, extracted, train_x, train_y>>
    /\ UNCHANGED <<mountVars, splitVars, trainVars>>

\* the kernel is restarted: every name is unbound, the generator unseeded;
\* the dataset file stays, and ref keeps what the ended execution had balanced
RestartKernel ==
    /\ rng.seeded
    /\ ref' = IF balanced
              THEN [set |-> TRUE, trace |-> balance_trace,
                    id_downsample |-> id_downsample,
                    train_x_balanced |-> train_x_balanced,
                    train_y_balanced |-> train_y_balanced]
              ELSE ref
    /\ extracted' = FALSE /\ balanced' = FALSE /\ balance_error' = FALSE
    /\ train_x' = <<>> /\ train_y' = <<>>
    /\ id_no_Ag' = <<>> /\ id_with_Ag' = <<>>
    /\ id_no_Ag_downsample' = <<>> /\ id_downsample' = <<>>
    /\ train_x_balanced' = <<>> /\ train_y_balanced' = <<>>
    /\ rng' = Unseeded /\ rng_trace' = <<>> /\ balance_trace' = <<>>
    /\ phase' = "idle" /\ fit_calls' = 0
    /\ model' = [cell |-> "none", fits |-> 0, opt_fits |-> 0]
    /\ fit_log' = [cell |-> "none", prior_fits |-> 0, prior_opt_fits |-> 0]
    /\ UNCHANGED <<callback_monitor, epoch, wait, best, best_weights, stop_training,
                   model_weights>>
    /\ UNCHANGED <<df, restore_on_train_end>>
    /\ UNCHANGED <<mountVars, splitVars>>

InitSeed ==
    /\ df \in SeedDataFrames
    /\ DataUnbound
    /\ MountIdle
    /\ SplitIdle
    /\ TrainIdle
    /\ SeedIdle

NextSeed ==
    \/ SeedCell
    \/ PlotSpectraCell
    \/ ExtractTrainingData
    \/ BalanceCellSeeded
    \/ RestartKernel

SpecSeed == InitSeed /\ [][NextSeed]_vars

-----------------------------------------------------------------------------
(* Properties of the data-preparation cells *)

BothClasses(y) == CountEq(y, 0) > 0 /\ CountEq(y, 1) > 0

\* C1: after the balancing cell, for every train_y in which both classes occur
\* and every outcome of the draws, train_y_balanced holds as many entries with
\* label 0 as with label 1 (and at least one of each).
C1_BalancedEqualCounts ==
    (balanced /\ BothClasses(train_y)) =>
        /\ CountEq(train_y_balanced, 0) = CountEq(train_y_balanced, 1)
        /\ CountEq(train_y_balanced, 1) > 0
        /\ ~balance_error

\* C1 witness: balanced data of two 'with Ag' rows and the one 'no Ag' row drawn twice
C1_Witness ==
    /\ balanced
    /\ CountEq(train_y, 1) = 2
    /\ CountEq(train_y, 0) = 1
    /\ Len(train_y_balanced) = 4

\* C2 as stated: the sampled class is the class with more samples, the number
\* drawn is the count of the minority class, and the balanced dataset never has
\* more rows than train_y.
C2_DownsamplesMajority ==
    balanced =>
        /\ CountEq(train_y, 0) >= CountEq(train_y, 1)
        /\ Len(id_downsample) - Len(id_with_Ag)
              = Min(CountEq(train_y, 0), CountEq(train_y, 1))
        /\ Len(train_y_balanced) <= Len(train_y)

\* C2 amended: the sampled class is always label 0 ('no Ag'), whichever class is
\* larger; the number of rows drawn equals the count of label-1 rows of train_y;
\* the balanced dataset has twice that many rows, which is no more than train_y
\* exactly when label 1 is not the majority.
C2_SamplesNoAgToWithAgCount ==
    balanced =>
        /\ CountEq(train_y_balanced, 0) = CountEq(train_y, 1)
        /\ Len(id_downsample) - Len(id_with_Ag) = CountEq(train_y, 1)
        /\ Len(train_y_balanced) = 2 * CountEq(train_y, 1)
        /\ (Len(train_y_balanced) <= Len(train_y)
              <=> CountEq(train_y, 1) <= CountEq(train_y, 0))

\* C2 witness: 'with Ag' is the majority and the balanced data outgrows train_y
C2_Witness ==
    /\ balanced
    /\ CountEq(train_y, 1) > CountEq(train_y, 0)
    /\ Len(train_y_balanced) > Len(train_y)

\* C3: for every sample kept for training, train_y[i] is 1 if and only if 'Ag'
\* is a member of the sample's Elements list and 0 otherwise; the samples kept
\* are the first TrainCap rows.
C3_LabelIsAgMembership ==
    extracted =>
        /\ Len(train_y) = Min(Len(df), TrainCap)
        /\ \A i \in 1..Len(train_y) :
              /\ train_y[i] \in {0, 1}
              /\ train_y[i] = 1 <=> "Ag" \in Range(df[i].Elements)

\* C3 witness: a kept sample with Ag listed second is labelled 1, another is
\* labelled 0, and a row beyond the cap is dropped
C3_Witness ==
    /\ extracted
    /\ Len(df) > Len(train_y)
    /\ \E i, j \in 1..Len(train_y) :
          /\ df[i].Elements = <<"Si", "Ag">> /\ train_y[i] = 1
          /\ train_y[j] = 0

\* number of entries of s equal to v, for the multiset of a sequence
Occurrences(s, v) == Cardinality({j \in 1..Len(s) : s[j] = v})

SameMultiset(s, t) ==
    /\ Len(s) = Len(t)
    /\ \A v \in Range(s) \cup Range(t) : Occurrences(s, v) = Occurrences(t, v)

\* C11: at every position i of the balanced dataset, train_x_balanced[i] and
\* train_y_balanced[i] are the spectrum and the label of the same original
\* sample, row id_downsample[i] of the dataframe; and the shuffle only permutes
\* the concatenation of id_with_Ag and the drawn indices.
C11_BalancedRowsAligned ==
    balanced =>
        /\ Len(train_x_balanced) = Len(id_downsample)
        /\ Len(train_y_balanced) = Len(id_downsample)
        /\ \A i \in 1..Len(id_downsample) :
              /\ id_downsample[i] \in 0..(Len(train_y) - 1)
              /\ train_x_balanced[i] = df[id_downsample[i] + 1].Spectra
              /\ train_y_balanced[i] = AsInt("Ag" \in Range(df[id_downsample[i] + 1].Elements))
        /\ SameMultiset(id_downsample, id_with_Ag \o id_no_Ag_downsample)

\* C11 witness: the shuffle moved a 'no Ag' row in front of a 'with Ag' row,
\* and both rows still carry their own spectrum and label
C11_Witness ==
    /\ balanced
    /\ Len(id_downsample) = 4
    /\ id_downsample # id_with_Ag \o id_no_Ag_downsample
    /\ train_y_balanced[1] = 0
    /\ train_y_balanced[2] = 1
    /\ train_x_balanced[1] = df[id_downsample[1] + 1].Spectra

\* C12: in the balanced dataset every 'with Ag' sample of train_y appears exactly
\* once, every other selected index is the index of a label-0 sample of train_y
\* (possibly selected more than once), and there are 2 * (number of 'with Ag'
\* samples) rows.
C12_WithAgOnceNoAgDrawn ==
    balanced =>
        /\ \A i \in 1..Len(train_y) :
              train_y[i] = 1 => Occurrences(id_downsample, i - 1) = 1
        /\ \A j \in 1..Len(id_downsample) :
              /\ id_downsample[j] \in 0..(Len(train_y) - 1)
              /\ train_y[id_downsample[j] + 1] \in {0, 1}
        /\ \A j \in 1..Len(id_no_Ag_downsample) :
              /\ id_no_Ag_downsample[j] \in 0..(Len(train_y) - 1)
              /\ train_y[id_no_Ag_downsample[j] + 1] = 0
        /\ Len(id_downsample) = 2 * Cardinality({i \in 1..Len(train_y) : train_y[i] = 1})

\* C12 witness: one 'no Ag' sample selected twice next to two 'with Ag' samples
C12_Witness ==
    /\ balanced
    /\ \E v \in Range(id_no_Ag_downsample) : Occurrences(id_downsample, v) = 2
    /\ Cardinality({i \in 1..Len(train_y) : train_y[i] = 1}) = 2

\* C13: under np.random.seed(0) the data processing is deterministic: an
\* execution that balances the same dataset after the same sequence of
\* random-consuming cells since the seed (plotting cell, balancing cell) as an
\* earlier execution did gets the same id_downsample, train_x_balanced and
\* train_y_balanced, whatever else was run and in whatever order
C13_SeededBalanceDeterministic ==
    (ref.set /\ balanced /\ balance_trace = ref.trace) =>
        /\ id_downsample = ref.id_downsample
        /\ train_x_balanced = ref.train_x_balanced
        /\ train_y_balanced = ref.train_y_balanced

\* after a kernel restart the plotting cell and then the balancing cell ran
\* again on a dataset with both classes, as in the execution before
C13_Witness ==
    /\ ref.set
    /\ rng.seeded
    /\ balanced
    /\ balance_trace = <<"plot", "balance">>
    /\ ref.trace = balance_trace
    /\ Len(id_downsample) >= 2
    /\ id_downsample = ref.id_downsample

\* the sequence of random-consuming cells matters: the same dataset balanced
\* after a different sequence, with a different result
C13_TraceMatters ==
    /\ ref.set
    /\ balanced
    /\ balance_trace # ref.trace
    /\ id_downsample # ref.id_downsample

\* s[:len(s)//2], the first half of a spectrum
FirstHalf(s) == SubSeq(s, 1, Len(s) \div 2)

\* C9 as stated: every row of train_x holds exactly the first half of the
\* sample's Spectra values and no value of the second half.
C9_FirstHalfOnly ==
    extracted =>
        \A i \in 1..Len(train_x) : train_x[i] = FirstHalf(df[i].Spectra)

-----------------------------------------------------------------------------
(* Properties of the Google Cloud Storage cells *)

MountEffects == <<dir_exists, apt_list_written, gcsfuse_installed, project_set,
                  mount_count>>

\* C4: a run of the bash cell with google_colab_env 'false', or with the
\* directory colab_data_path already there, changes nothing (no apt source
\* list, no install, no gcloud project, no directory, no mount), and over any
\* number of runs the bucket is mounted at most once.
C4_NoEffectLocallyOrMounted ==
    [][/\ (bash_runs' # bash_runs /\ (google_colab_env = "false" \/ dir_exists))
            => UNCHANGED MountEffects
       /\ mount_count' <= 1]_vars

\* C4 witness: the bucket was mounted by one run and two later runs left it alone
C4_Witness ==
    /\ mount_count = 1
    /\ bash_runs >= 3
    /\ bash_out = "Data already mounted."

\* C14: after the environment cell, google_colab_env is 'true' if and only if
\* data_path is colab_data_path: the pair is ('true', colab_data_path) when the
\* import and the authentication both succeeded and ('false', the local path)
\* when either raised; and a run of the bash cell that follows with 'false'
\* mounts nothing.
C14_EnvPairAndNoMount ==
    [][/\ google_colab_env' # "unset" =>
            /\ google_colab_env' = "true" <=> data_path' = colab_data_path
            /\ IF env_attempt'.import_ok /\ env_attempt'.auth_ok
               THEN google_colab_env' = "true" /\ data_path' = colab_data_path
               ELSE google_colab_env' = "false" /\ data_path' = local_data_path
       /\ (bash_runs' # bash_runs /\ google_colab_env = "false") =>
            /\ mount_count' = mount_count
            /\ dir_exists' = dir_exists
            /\ bash_out' = "Running notebook locally."]_vars

\* C14 witness: on Colab the authentication raised, the pair is
\* ('false', local path), and the bash cell ran and mounted nothing
C14_Witness ==
    /\ platform = "colab"
    /\ env_attempt = [import_ok |-> TRUE, auth_ok |-> FALSE]
    /\ google_colab_env = "false"
    /\ data_path = local_data_path
    /\ bash_runs >= 1
    /\ bash_out = "Running notebook locally."
    /\ mount_count = 0

-----------------------------------------------------------------------------
(* Properties of the training runs *)

\* C5 as stated: the early-stopping callback passed to model.fit monitors a
\* metric computed on the held-out validation subset, not on the training subset.
C5_MonitorsValidation ==
    callback_monitor # "none" => MetricSubset(callback_monitor) = "validation"

\* C6: in the early-stopping run an epoch is executed only while the monitored
\* value improved within the last Patience (50) epochs and fewer than Epochs
\* (500) epochs ran; the fit returns only once one of the two is no longer so.
\* epoch - best_weights is the number of epochs since the last improvement.
C6_StopsAtPatience ==
    [][/\ (epoch' = epoch + 1) =>
            /\ epoch - best_weights < Patience
            /\ epoch < Epochs
       /\ (phase = "fitting" /\ phase' = "returned") =>
            /\ epoch <= Epochs
            /\ (epoch - best_weights >= Patience \/ epoch = Epochs)]_vars

\* C6 witness: the fit returned after 51 epochs, the last 50 without improvement
C6_Witness ==
    /\ phase = "returned"
    /\ epoch = Patience + 1
    /\ best_weights = 1
    /\ stop_training

\* C7 as stated: when the early-stopping fit returns, the model holds the
\* weights of the epoch with the best monitored value of the run, whether it
\* was stopped by the patience rule or ran through all the epochs.
C7_BestWeightsRecovered ==
    phase = "returned" => model_weights = best_weights

RetrainCells == {"balanced", "dropout", "early_stopping"}

\* C10: every model.fit of a re-training cell (balanced data, dropout, early
\* stopping) runs on a model defined and compiled after the previous model.fit:
\* its weights and its optimizer went through no fit before.
C10_RetrainStartsFresh ==
    fit_log.cell \in RetrainCells =>
        /\ fit_log.prior_fits = 0
        /\ fit_log.prior_opt_fits = 0

\* C10 witness: the early-stopping cell fits as the second model.fit of the session
C10_Witness ==
    /\ fit_calls = 2
    /\ fit_log.cell = "early_stopping"
    /\ model.fits = 1

-----------------------------------------------------------------------------
(* Properties of the validation subset *)

\* the last k entries of an array of n entries named by their positions
LastEntries(n, k) == [i \in 1..k |-> n - k + i - 1]

\* the ceiling of n / 5
CeilFifth(n) == (n + 4) \div 5

\* C8 as stated: for every n >= 1, validation_split=0.2 holds out the final
\* fifth of the samples and the 'Validation subset' slice selects exactly those
\* samples, for train_y and for train_y_balanced.
C8_SliceIsHeldOutEveryN ==
    (hist_done /\ (fit_done \/ fit_error)) =>
        /\ ~fit_error
        /\ hist_validation = fit_validation

\* C8 amended: for every n >= 2 (with one sample, Keras releases that check the
\* split raise ValueError and hold out nothing), model.fit holds out the final
\* ceil(n/5) samples in their stored order and trains on the ones before them,
\* and the 'Validation subset' slice selects exactly the held-out samples.
C8_SliceIsHeldOut ==
    (hist_done /\ Len(split_labels) >= 2) =>
        /\ ~fit_error
        /\ hist_validation = LastEntries(Len(split_labels), CeilFifth(Len(split_labels)))
        /\ fit_done =>
              /\ fit_validation = hist_validation
              /\ fit_training \o fit_validation = split_labels

\* C8 witness: an array of 7 entries, not a multiple of 5: both the slice and
\* the split take the last two
C8_Witness ==
    /\ hist_done
    /\ fit_done
    /\ Len(split_labels) = 7
    /\ split_array = "train_y_balanced"
    /\ hist_validation = <<5, 6>>
    /\ fit_validation = <<5, 6>>

====
